---- MODULE Spec2Model ----
(***************************************************************************)
(* Model of src/app.py, the Streamlit dashboard over a tweet export.       *)
(*                                                                         *)
(* The script is re-run from its first line on every viewer interaction.   *)
(* One run ("pass") is modelled statement by statement: pc names the       *)
(* statement to run next, status tells whether the run is still going,     *)
(* finished, or stopped on an exception.  The st.cache_data cache and the  *)
(* widget values live in the session and survive a re-run; every script    *)
(* variable is rebuilt by each run.                                        *)
(*                                                                         *)
(* Representation.  A text is a sequence of one-character strings.  A      *)
(* created_at string "y-mo-01 h:00:00" is the tuple <<y, mo, h>>.  pandas  *)
(* NaN / NaT is NaN (numbers), NaT (timestamps), NaNName (month names) and *)
(* NaNTok (exploded tokens).  A mean is the pair <<sum, n>>.               *)
(***************************************************************************)
EXTENDS Integers, Sequences, FiniteSets, TLC

\* ------------------------------------------------------------- bounds
MaxRecords == 2
MaxTopRecords == 11
MaxTextLen == 4

\* ---------------------------------------------------------- null values
NaN == -1
NoneVal == -2
NaT == <<>>
NaNName == "NaN"
NaNTok == <<>>
NoSource == "None"

\* ------------------------------------------------------ generic helpers
Range(s) == {s[i] : i \in 1..Len(s)}

RECURSIVE SumSeq(_)
SumSeq(s) == IF s = <<>> THEN 0 ELSE Head(s) + SumSeq(Tail(s))

RECURSIVE Flatten(_)
Flatten(ss) == IF ss = <<>> THEN <<>> ELSE Head(ss) \o Flatten(Tail(ss))

Column(df, f(_)) == [i \in 1..Len(df) |-> f(df[i])]

\* Boolean indexing df[mask]: the rows whose mask entry is TRUE, in order.
RECURSIVE MaskFrom(_, _, _)
MaskFrom(df, mask, i) ==
    IF i > Len(df) THEN <<>>
    ELSE (IF mask[i] THEN <<df[i]>> ELSE <<>>) \o MaskFrom(df, mask, i + 1)

BooleanIndex(df, mask) == MaskFrom(df, mask, 1)

\* Series.dropna()
DropNa(s, na) == SelectSeq(s, LAMBDA x : x # na)

\* Ascending sort of a set of integers.
SortedInts(S) ==
    [k \in 1..Cardinality(S) |->
        CHOOSE x \in S : Cardinality({y \in S : y < x}) = k - 1]

\* Series.unique(): distinct values in order of first appearance.
Unique(s) ==
    LET first == SortedInts({i \in 1..Len(s) : \A j \in 1..(i - 1) : s[j] # s[i]})
    IN  [k \in 1..Len(first) |-> s[first[k]]]

CountOf(s, v) == Cardinality({i \in 1..Len(s) : s[i] = v})

\* Stable sort of <<label, count>> pairs by count, descending.
RECURSIVE SortByCountDesc(_)
SortByCountDesc(ps) ==
    IF ps = <<>> THEN <<>>
    ELSE LET best == CHOOSE i \in 1..Len(ps) :
                         /\ \A j \in 1..Len(ps) : ps[j][2] <= ps[i][2]
                         /\ \A j \in 1..(i - 1) : ps[j][2] < ps[i][2]
             rest == [k \in 1..(Len(ps) - 1) |-> IF k < best THEN ps[k] ELSE ps[k + 1]]
         IN  <<ps[best]>> \o SortByCountDesc(rest)

\* Series.value_counts(): NaN dropped, one <<value, count>> per distinct
\* value, most frequent first, ties in order of first appearance.
ValueCounts(s, na) ==
    LET vals == DropNa(s, na)
        u == Unique(vals)
    IN  SortByCountDesc([i \in 1..Len(u) |-> <<u[i], CountOf(vals, u[i])>>])

\* Series.head(n) / DataFrame.head(n)
HeadN(s, n) == IF Len(s) <= n THEN s ELSE SubSeq(s, 1, n)

\* ------------------------------------------------------------- the data
SourceOrder == <<"Twitter Web Client", "Twitter for Android">>

MonthNames ==
    <<"January", "February", "March", "April", "May", "June",
      "July", "August", "September", "October", "November", "December">>

WordChars ==
    {"a", "b", "c", "d", "e", "f", "g", "h", "i", "j", "k", "l", "o", "_"}

Hello == <<"h", "e", "l", "l", "o">>
Example == Hello \o <<" ", "#", "a", " ", "#", "b", " ", "@", "c">>
TextGood == <<"g", "o", "o", "d">>
TextTags == <<"#", "a", " ", "@", "c">>
TagLetters == <<"a", "b", "c", "d", "e", "f", "g", "h", "i", "j", "k">>
TextManyHashtags == Flatten([i \in 1..Len(TagLetters) |-> <<"#", TagLetters[i]>>])
TextManyMentions == Flatten([i \in 1..Len(TagLetters) |-> <<"@", TagLetters[i]>>])

Raw(c, t, s, r, f) ==
    [created_at |-> c, text |-> t, source |-> s, retweets_count |-> r,
     favorite_count |-> f]

\* created_at strings of the export: three well-formed ones and one with
\* month 13, which no datetime parser accepts.
CreatedAts == {<<2016, 1, 9>>, <<2016, 2, 14>>, <<2017, 1, 9>>, <<2016, 13, 9>>}

RawRecords ==
    {Raw(c, TextGood, s, 2, 1) : c \in CreatedAts, s \in Range(SourceOrder)}
    \cup {Raw(c, TextTags, s, 0, 3) : c \in CreatedAts, s \in Range(SourceOrder)}

SeqsUpTo(S, n) == UNION {[1..k -> S] : k \in 0..n}

Datasets == SeqsUpTo(RawRecords, MaxRecords)

\* Long exports for the top-10 artifacts: n rows whose text and counts
\* follow the row number with period k, alone or after two rows that
\* carry eleven distinct hashtags and eleven distinct mentions.
TopRow(i, k) ==
    Raw(<<2016, 1, 9>>, IF i % k = 0 THEN TextTags ELSE TextGood, SourceOrder[1],
        i % 2, (i * k) % 3)

ManyHashtagsRow == Raw(<<2016, 1, 9>>, TextManyHashtags, SourceOrder[1], 0, 1)
ManyMentionsRow == Raw(<<2016, 1, 9>>, TextManyMentions, SourceOrder[1], 1, 0)

TopDatasets ==
    {[i \in 1..n |-> TopRow(i, k)] : n \in 0..MaxTopRecords, k \in 1..3}
    \cup {<<ManyHashtagsRow>> \o [i \in 1..n |-> TopRow(i, k)] :
              n \in 0..(MaxTopRecords - 1), k \in 1..3}
    \cup {<<ManyHashtagsRow, ManyMentionsRow>> \o [i \in 1..n |-> TopRow(i, k)] :
              n \in 0..(MaxTopRecords - 2), k \in 1..3}

\* Every short text over a five-character alphabet, alone or after the
\* row carrying the example text.
TextAlphabet == {"#", "@", "a", "b", " "}
TextRow(t) == Raw(<<2016, 1, 9>>, t, SourceOrder[1], 0, 1)
TextDatasets ==
    {<<TextRow(t)>> : t \in SeqsUpTo(TextAlphabet, MaxTextLen)}
    \cup {<<TextRow(Example), TextRow(t)>> : t \in SeqsUpTo(TextAlphabet, MaxTextLen)}

HourMarks == {0, 9, 23}
HourRanges == {<<lo, hi>> \in HourMarks \X HourMarks : lo <= hi}

\* ------------------------------------------------- feature derivation
\* re.findall over a text: every match of marker followed by one or more
\* word characters, left to right without overlap.  With capture the
\* match is reported as its group (the word), otherwise whole.
RECURSIVE WordRun(_, _)
WordRun(text, i) ==
    IF i <= Len(text) /\ text[i] \in WordChars
    THEN <<text[i]>> \o WordRun(text, i + 1)
    ELSE <<>>

RECURSIVE FindAllFrom(_, _, _, _)
FindAllFrom(text, marker, capture, i) ==
    IF i > Len(text) THEN <<>>
    ELSE LET run == WordRun(text, i + 1)
         IN  IF text[i] = marker /\ run # <<>>
             THEN <<IF capture THEN run ELSE <<marker>> \o run>>
                  \o FindAllFrom(text, marker, capture, i + 1 + Len(run))
             ELSE FindAllFrom(text, marker, capture, i + 1)

\* re.findall(r'\w+', text): the maximal runs of word characters.
Words(text) ==
    LET starts == SortedInts({i \in 1..Len(text) :
                                 /\ text[i] \in WordChars
                                 /\ i = 1 \/ text[i - 1] \notin WordChars})
    IN  [k \in 1..Len(starts) |-> WordRun(text, starts[k])]

HashtagFindallBare(text) == FindAllFrom(text, "#", TRUE, 1)
HashtagFindall(text) == FindAllFrom(text, "#", FALSE, 1)

MentionFindall(text) == FindAllFrom(text, "@", TRUE, 1)

\* pd.to_datetime(..., errors='coerce'): the timestamp, or NaT when the
\* string does not denote a date and time.
ToDatetime(c) ==
    IF c[2] \in 1..12 /\ c[3] \in 0..23 THEN c ELSE NaT

DtYear(ts) == IF ts = NaT THEN NaN ELSE ts[1]
DtMonthName(ts) == IF ts = NaT THEN NaNName ELSE MonthNames[ts[2]]
DtHour(ts) == IF ts = NaT THEN NaN ELSE ts[3]
DtDate(ts) == IF ts = NaT THEN NaT ELSE <<ts[1], ts[2]>>

\* TextBlob polarity in tenths: the mean score of the words the lexicon
\* knows, 0 when it knows none.
PolarityTenths(word) == IF word = TextGood THEN 7 ELSE 0

Sentiment(text) ==
    LET known == SelectSeq(Words(text), LAMBDA w : PolarityTenths(w) # 0)
    IN  IF known = <<>> THEN 0
        ELSE SumSeq([i \in 1..Len(known) |-> PolarityTenths(known[i])]) \div Len(known)

Derive(r) ==
    LET ts == ToDatetime(r.created_at)
    IN  [created_at |-> ts, text |-> r.text, source |-> r.source,
         retweets_count |-> r.retweets_count,
         favorite_count |-> r.favorite_count,
         year |-> DtYear(ts), month |-> DtMonthName(ts), hour |-> DtHour(ts),
         text_length |-> Len(r.text), sentiment |-> Sentiment(r.text),
         mention |-> MentionFindall(r.text)]

PreprocessDropNaT(df) ==
    SelectSeq(Column(df, Derive), LAMBDA r : r.created_at # NaT)
Preprocess(df) == Column(df, Derive)

\* --------------------------------------------------------------- filter
\* Series == scalar: NaN (and None) equal nothing.
PdEq(a, b) == a # NaN /\ b # NaN /\ a = b

BetweenExclusive(x, lo, hi) == x # NaN /\ lo <= x /\ x < hi
\* Series.between(lo, hi): inclusive="both"; NaN is between nothing.
Between(x, lo, hi) == x # NaN /\ lo <= x /\ x <= hi

FilterMaskKeepsUnparsed(df, year, source, hour) ==
    [i \in 1..Len(df) |->
        /\ df[i].year = NaN \/ PdEq(df[i].year, year)
        /\ df[i].source = source
        /\ df[i].hour = NaN \/ Between(df[i].hour, hour[1], hour[2])]
FilterMask(df, year, source, hour) ==
    [i \in 1..Len(df) |->
        /\ PdEq(df[i].year, year)
        /\ df[i].source = source
        /\ Between(df[i].hour, hour[1], hour[2])]

FilterTweets(df, year, source, hour) ==
    BooleanIndex(df, FilterMask(df, year, source, hour))

\* -------------------------------------------------------------- sidebar
YearOptions(df) ==
    SortedInts(Range(DropNa(Column(df, LAMBDA r : r.year), NaN)))

SourceOptions(df) ==
    SelectSeq(SourceOrder, LAMBDA s : \E i \in 1..Len(df) : df[i].source = s)

\* st.selectbox: the session's value, on the first run the first option,
\* None when there is no option.
Selectbox(options, none, set, value) ==
    IF set THEN value ELSE IF options = <<>> THEN none ELSE options[1]

\* ---------------------------------------------------------- aggregators
Zero == <<0, 1>>

\* Series.mean() as the pair <<sum, number of values>>.
Mean(col) == <<SumSeq(col), Len(col)>>

\* Series.explode(): one row per list element, one NaN row per empty list.
Explode(lists) ==
    Flatten([i \in 1..Len(lists) |->
                IF lists[i] = <<>> THEN <<NaNTok>> ELSE lists[i]])

\* filtered_tweets['text'].str.findall(r'#\w+')
StrFindallHashtags(df) == [i \in 1..Len(df) |-> HashtagFindall(df[i].text)]

HashtagCounts(df) == ValueCounts(Explode(StrFindallHashtags(df)), NaNTok)

\* Series.idxmax() of a value_counts result: the label of the first
\* largest count.  Raises ValueError on an empty Series.
IdxMax(vc) ==
    vc[CHOOSE i \in 1..Len(vc) :
          /\ \A j \in 1..Len(vc) : vc[j][2] <= vc[i][2]
          /\ \A j \in 1..(i - 1) : vc[j][2] < vc[i][2]][1]

Sentinel == <<"N", "/", "A">>

\* Series.reindex(labels, fill_value=fill)
Reindex(vc, labels, fill) ==
    [k \in 1..Len(labels) |->
        <<labels[k],
          IF \E i \in 1..Len(vc) : vc[i][1] = labels[k]
          THEN vc[CHOOSE i \in 1..Len(vc) : vc[i][1] = labels[k]][2]
          ELSE fill>>]

MonthCounts(df) == ValueCounts(Column(df, LAMBDA r : r.month), NaNName)

MonthDataByFrequency(df) == MonthCounts(df)
MonthData(df) == Reindex(MonthCounts(df), MonthNames, 0)

\* Series.sort_index() of counts labelled by integers.
SortIndex(vc) ==
    LET labels == SortedInts({vc[i][1] : i \in 1..Len(vc)})
    IN  [k \in 1..Len(labels) |->
            vc[CHOOSE i \in 1..Len(vc) : vc[i][1] = labels[k]]]

HourlyData(df) == SortIndex(ValueCounts(Column(df, LAMBDA r : r.hour), NaN))

TopN == 10

AllHashtagsHeadUncut(vc) == vc
AllHashtagsHead(vc) == HeadN(vc, TopN)

\* Lexicographic order of equally long tuples of integers.
RECURSIVE LexLess(_, _)
LexLess(a, b) ==
    /\ a # <<>>
    /\ \/ Head(a) < Head(b)
       \/ Head(a) = Head(b) /\ LexLess(Tail(a), Tail(b))

\* DataFrame.nlargest(n, columns), keep='first': the n rows of largest
\* key, largest first, equal keys in their original order.
RECURSIVE NLargest(_, _, _)
NLargest(df, n, keys) ==
    IF n = 0 \/ df = <<>> THEN <<>>
    ELSE LET best == CHOOSE i \in 1..Len(df) :
                         /\ \A j \in 1..Len(df) : ~LexLess(keys[i], keys[j])
                         /\ \A j \in 1..(i - 1) : LexLess(keys[j], keys[i])
             drop(q) == [k \in 1..(Len(q) - 1) |-> IF k < best THEN q[k] ELSE q[k + 1]]
         IN  <<df[best]>> \o NLargest(drop(df), n - 1, drop(keys))

DisplayColumns(r) ==
    [text |-> r.text, favorite_count |-> r.favorite_count,
     retweets_count |-> r.retweets_count, created_at |-> r.created_at]

TopTweets(df) ==
    Column(NLargest(df, TopN, Column(df, LAMBDA r : <<r.favorite_count>>)),
           DisplayColumns)

TopEngagedTweets(df) ==
    Column(NLargest(df, TopN,
                    Column(df, LAMBDA r : <<r.retweets_count, r.favorite_count>>)),
           DisplayColumns)

SourceCounts(df) == ValueCounts(Column(df, LAMBDA r : r.source), NaNName)

SentimentLabel(x) ==
    IF x > 0 THEN "Positive" ELSE IF x < 0 THEN "Negative" ELSE "Neutral"

SentimentCounts(df) ==
    ValueCounts(Column(df, LAMBDA r : SentimentLabel(r.sentiment)), NaNName)

\* ' '.join(texts)
RECURSIVE Join(_)
Join(texts) ==
    IF texts = <<>> THEN <<>>
    ELSE IF Len(texts) = 1 THEN texts[1]
    ELSE texts[1] \o <<" ">> \o Join(Tail(texts))

\* WordCloud.generate: the words of the text that are no stop word, counted,
\* at most max_words of them.  Raises ValueError when there is no word.
Stopwords == {<<"a">>, <<"i">>}
MaxWords == 100

WordCloudWords(df) ==
    SelectSeq(Words(Join(Column(df, LAMBDA r : r.text))),
              LAMBDA w : w \notin Stopwords)

WordCloudFrequencies(df) == HeadN(ValueCounts(WordCloudWords(df), NaNTok), MaxWords)

TextLengthCounts(df) ==
    SortIndex(ValueCounts(Column(df, LAMBDA r : r.text_length), NaN))

Mentions(df) ==
    HeadN(ValueCounts(Explode(Column(df, LAMBDA r : r.mention)), NaNTok), TopN)

\* groupby(['hour', 'month']).size().unstack(fill_value=0): one cell per
\* hour and month that occur, 0 where the pair does not.
TimeOfDayData(df) ==
    LET hours == {df[i].hour : i \in 1..Len(df)} \ {NaN}
        months == {df[i].month : i \in 1..Len(df)} \ {NaNName}
    IN  [p \in hours \X months |->
            Cardinality({i \in 1..Len(df) : df[i].hour = p[1] /\ df[i].month = p[2]})]

\* groupby('created_at').agg(sum) of the two counts.
TimeSeries(df) ==
    LET stamps == {df[i].created_at : i \in 1..Len(df)} \ {NaT}
        rows(t) == SelectSeq(df, LAMBDA r : r.created_at = t)
    IN  [t \in stamps |->
            <<SumSeq(Column(rows(t), LAMBDA r : r.retweets_count)),
              SumSeq(Column(rows(t), LAMBDA r : r.favorite_count))>>]

\* groupby('date').apply(the ten most frequent words of the day)
WordFreqOverTime(df) ==
    LET dates == {DtDate(df[i].created_at) : i \in 1..Len(df)} \ {NaT}
        rows(d) == SelectSeq(df, LAMBDA r : DtDate(r.created_at) = d)
    IN  [d \in dates |->
            HeadN(ValueCounts(Explode(Column(rows(d), LAMBDA r : Words(r.text))),
                              NaNTok), TopN)]

\* ---------------------------------------------------------------- state
VARIABLES source_data, cache, fetches, widget, pc, status, g

vars == <<source_data, cache, fetches, widget, pc, status, g>>

\* The statements of the script, in order.
Order ==
    <<"load_data", "preprocess", "sidebar", "filter", "metrics", "month_data",
      "hourly_data", "all_hashtags", "top_tweets", "source_counts",
      "sentiment_counts", "wordcloud", "text_length", "mentions",
      "time_of_day_data", "time_series", "word_freq_over_time",
      "top_engaged_tweets", "done">>

Pos(label) == CHOOSE i \in 1..Len(Order) : Order[i] = label
After(label) == Order[Pos(label) + 1]
\* The statement has run to completion in this pass.
Ran(label) == Pos(pc) > Pos(label)

\* The globals of a script run before its first statement.
Fresh ==
    [tweets |-> <<>>, year_filter |-> NoneVal, source_filter |-> NoSource,
     hour_filter |-> <<0, 23>>, filtered_tweets |-> <<>>, num_tweets |-> 0,
     avg_retweets |-> Zero, avg_likes |-> Zero, top_hashtag |-> <<>>,
     month_data |-> <<>>, hourly_data |-> <<>>, hashtag_findall |-> <<>>,
     all_hashtags |-> <<>>, all_hashtags_head |-> <<>>, top_tweets |-> <<>>,
     source_counts |-> <<>>, sentiment_counts |-> <<>>, wordcloud |-> <<>>,
     text_length_counts |-> <<>>, mentions |-> <<>>, time_of_day_data |-> <<>>,
     time_series |-> <<>>, date |-> <<>>, word_freq_over_time |-> <<>>,
     top_engaged_tweets |-> <<>>]

NoCache == [loaded |-> FALSE, value |-> <<>>]
NoWidget == [set |-> FALSE, year |-> NoneVal, source |-> NoSource, hour |-> <<0, 23>>]

Start(datasets) ==
    /\ source_data \in datasets
    /\ cache = NoCache
    /\ fetches = 0
    /\ widget = NoWidget
    /\ pc = "load_data"
    /\ status = "running"
    /\ g = Fresh

Init == Start(Datasets)
InitTopN == Start(TopDatasets)
InitText == Start(TextDatasets)

At(label) == pc = label /\ status = "running"

Advance(label) ==
    /\ pc' = After(label)
    /\ status' = IF After(label) = "done" THEN "done" ELSE "running"

Raise == pc' = pc /\ status' = "raised"

\* st.cache_data: the stored return value is served when there is one.
CacheNeverHit(c) == FALSE
CacheHit(c) == c.loaded

\* Lines 10-17: load_data(), fetched from the url on a cache miss only.
LoadData ==
    /\ At("load_data")
    /\ IF CacheHit(cache)
       THEN /\ g' = [g EXCEPT !.tweets = cache.value]
            /\ UNCHANGED <<cache, fetches>>
       ELSE /\ fetches' = fetches + 1
            /\ cache' = [loaded |-> TRUE, value |-> source_data]
            /\ g' = [g EXCEPT !.tweets = source_data]
    /\ Advance("load_data")
    /\ UNCHANGED <<source_data, widget>>

\* Lines 19-26
PreprocessData ==
    /\ At("preprocess")
    /\ g' = [g EXCEPT !.tweets = Preprocess(g.tweets)]
    /\ Advance("preprocess")
    /\ UNCHANGED <<source_data, cache, fetches, widget>>

\* Lines 28-37
Sidebar ==
    /\ At("sidebar")
    /\ LET y == Selectbox(YearOptions(g.tweets), NoneVal, widget.set, widget.year)
           s == Selectbox(SourceOptions(g.tweets), NoSource, widget.set, widget.source)
           h == widget.hour
       IN  /\ g' = [g EXCEPT !.year_filter = y, !.source_filter = s, !.hour_filter = h]
           /\ widget' = [set |-> TRUE, year |-> y, source |-> s, hour |-> h]
    /\ Advance("sidebar")
    /\ UNCHANGED <<source_data, cache, fetches>>

\* Lines 39-44
FilterData ==
    /\ At("filter")
    /\ g' = [g EXCEPT !.filtered_tweets =
                FilterTweets(g.tweets, g.year_filter, g.source_filter, g.hour_filter)]
    /\ Advance("filter")
    /\ UNCHANGED <<source_data, cache, fetches, widget>>

Keep == UNCHANGED <<source_data, cache, fetches, widget>>

\* Lines 50-57: the four metrics.  idxmax raises ValueError when the
\* filtered rows hold no hashtag, after the other three are assigned.
Metrics ==
    /\ At("metrics")
    /\ LET ft == g.filtered_tweets
           n == Len(ft)
           counted == [g EXCEPT
                         !.num_tweets = n,
                         !.avg_retweets =
                             IF n > 0 THEN Mean(Column(ft, LAMBDA r : r.retweets_count))
                             ELSE Zero,
                         !.avg_likes =
                             IF n > 0 THEN Mean(Column(ft, LAMBDA r : r.favorite_count))
                             ELSE Zero]
           hc == HashtagCounts(ft)
       IN  IF n > 0
           THEN IF hc = <<>>
                THEN g' = counted /\ Raise
                ELSE /\ g' = [counted EXCEPT !.top_hashtag = IdxMax(hc)]
                     /\ Advance("metrics")
           ELSE /\ g' = [counted EXCEPT !.top_hashtag = Sentinel]
                /\ Advance("metrics")
    /\ Keep

\* Lines 65-69
MonthChart ==
    /\ At("month_data")
    /\ g' = [g EXCEPT !.month_data = MonthData(g.filtered_tweets)]
    /\ Advance("month_data")
    /\ Keep

\* Lines 73-74
HourChart ==
    /\ At("hourly_data")
    /\ g' = [g EXCEPT !.hourly_data = HourlyData(g.filtered_tweets)]
    /\ Advance("hourly_data")
    /\ Keep

\* Lines 78-81
HashtagChart ==
    /\ At("all_hashtags")
    /\ g' = [g EXCEPT
               !.hashtag_findall = StrFindallHashtags(g.filtered_tweets),
               !.all_hashtags = HashtagCounts(g.filtered_tweets),
               !.all_hashtags_head = AllHashtagsHead(HashtagCounts(g.filtered_tweets))]
    /\ Advance("all_hashtags")
    /\ Keep

\* Lines 100-102
TopTweetsTable ==
    /\ At("top_tweets")
    /\ g' = [g EXCEPT !.top_tweets = TopTweets(g.filtered_tweets)]
    /\ Advance("top_tweets")
    /\ Keep

\* Lines 105-108: counted over tweets, the whole dataset.
SourcePie ==
    /\ At("source_counts")
    /\ g' = [g EXCEPT !.source_counts = SourceCounts(g.tweets)]
    /\ Advance("source_counts")
    /\ Keep

\* Lines 114-116
SentimentChart ==
    /\ At("sentiment_counts")
    /\ g' = [g EXCEPT !.sentiment_counts = SentimentCounts(g.filtered_tweets)]
    /\ Advance("sentiment_counts")
    /\ Keep

\* Lines 119-121: generate raises ValueError when no word is left.
WordCloudImage ==
    /\ At("wordcloud")
    /\ IF WordCloudWords(g.filtered_tweets) = <<>>
       THEN UNCHANGED g /\ Raise
       ELSE /\ g' = [g EXCEPT !.wordcloud = WordCloudFrequencies(g.filtered_tweets)]
            /\ Advance("wordcloud")
    /\ Keep

\* Lines 124-126
TextLengthChart ==
    /\ At("text_length")
    /\ g' = [g EXCEPT !.text_length_counts = TextLengthCounts(g.filtered_tweets)]
    /\ Advance("text_length")
    /\ Keep

\* Lines 128-130
MentionsChart ==
    /\ At("mentions")
    /\ g' = [g EXCEPT !.mentions = Mentions(g.filtered_tweets)]
    /\ Advance("mentions")
    /\ Keep

\* Lines 133-135
Heatmap ==
    /\ At("time_of_day_data")
    /\ g' = [g EXCEPT !.time_of_day_data = TimeOfDayData(g.filtered_tweets)]
    /\ Advance("time_of_day_data")
    /\ Keep

\* Lines 144-146
TimeSeriesChart ==
    /\ At("time_series")
    /\ g' = [g EXCEPT !.time_series = TimeSeries(g.filtered_tweets)]
    /\ Advance("time_series")
    /\ Keep

\* Lines 149-152: the date column is kept beside the filtered rows.
WordFrequencyTable ==
    /\ At("word_freq_over_time")
    /\ g' = [g EXCEPT
               !.date = Column(g.filtered_tweets, LAMBDA r : DtDate(r.created_at)),
               !.word_freq_over_time = WordFreqOverTime(g.filtered_tweets)]
    /\ Advance("word_freq_over_time")
    /\ Keep

\* Lines 155-157
TopEngagedTable ==
    /\ At("top_engaged_tweets")
    /\ g' = [g EXCEPT !.top_engaged_tweets = TopEngagedTweets(g.filtered_tweets)]
    /\ Advance("top_engaged_tweets")
    /\ Keep

\* A viewer interaction: one widget gets a new value and the script is
\* re-run from its first line, whatever the running pass was doing.  The
\* widgets offer what the last pass rendered them with.
Rerun(w) ==
    /\ widget.set
    /\ w # widget
    /\ widget' = w
    /\ pc' = "load_data"
    /\ status' = "running"
    /\ g' = Fresh
    /\ UNCHANGED <<source_data, cache, fetches>>

SelectYear ==
    \E y \in Range(YearOptions(Preprocess(cache.value))) :
        Rerun([widget EXCEPT !.year = y])

SelectSource ==
    \E s \in Range(SourceOptions(Preprocess(cache.value))) :
        Rerun([widget EXCEPT !.source = s])

SlideHours ==
    \E h \in HourRanges : Rerun([widget EXCEPT !.hour = h])

\* One run of the script, statement by statement.
Pass ==
    \/ LoadData
    \/ PreprocessData
    \/ Sidebar
    \/ FilterData
    \/ Metrics
    \/ MonthChart
    \/ HourChart
    \/ HashtagChart
    \/ TopTweetsTable
    \/ SourcePie
    \/ SentimentChart
    \/ WordCloudImage
    \/ TextLengthChart
    \/ MentionsChart
    \/ Heatmap
    \/ TimeSeriesChart
    \/ WordFrequencyTable
    \/ TopEngagedTable

Next ==
    \/ Pass
    \/ SelectYear
    \/ SelectSource
    \/ SlideHours

\* The session: passes and viewer interactions over a short export.
Spec == Init /\ [][Next]_vars
\* A first pass over a long export, and over an export of short texts.
SpecTopN == InitTopN /\ [][Pass]_vars
SpecText == InitText /\ [][Pass]_vars

\* ------------------------------------------------------------- claims
FT == g.filtered_tweets

\* C1: once the filter statement has run, the filtered rows are exactly the
\* rows of the enriched dataset, in dataset order, whose year equals the
\* selected year, whose source equals the selected source and whose hour
\* lies between the two selected hours, both ends included.
C1_FilteredIsMatchingSubsequence ==
    Ran("filter") =>
        FT = SelectSeq(g.tweets,
                       LAMBDA r : /\ r.year = g.year_filter
                                  /\ r.source = g.source_filter
                                  /\ g.hour_filter[1] <= r.hour
                                  /\ r.hour <= g.hour_filter[2])

C1_Witness ==
    /\ pc = "done"
    /\ g.hour_filter = <<9, 9>>
    /\ Len(g.tweets) = 2
    /\ Len(FT) = 1

C1_WitnessOrder ==
    /\ Ran("filter")
    /\ Len(FT) = 2
    /\ FT[1] # FT[2]

\* C2: a row whose created_at does not parse stays in the enriched dataset,
\* at its place, with timestamp, year, month and hour null and with text,
\* source and both counts as delivered; preprocessing never stops the pass.
Unparsable(c) == c[2] \notin 1..12 \/ c[3] \notin 0..23

C2_UnparsedRowKeptWithNulls ==
    /\ ~(pc = "preprocess" /\ status = "raised")
    /\ Ran("preprocess") =>
          /\ Len(g.tweets) = Len(source_data)
          /\ \A i \in 1..Len(source_data) :
                Unparsable(source_data[i].created_at) =>
                    /\ g.tweets[i].created_at = NaT
                    /\ g.tweets[i].year = NaN
                    /\ g.tweets[i].month = NaNName
                    /\ g.tweets[i].hour = NaN
                    /\ g.tweets[i].text = source_data[i].text
                    /\ g.tweets[i].source = source_data[i].source
                    /\ g.tweets[i].retweets_count = source_data[i].retweets_count
                    /\ g.tweets[i].favorite_count = source_data[i].favorite_count

C2_Witness ==
    /\ Ran("preprocess")
    /\ \E i \in 1..Len(source_data) : Unparsable(source_data[i].created_at)
    /\ \E i \in 1..Len(source_data) : ~Unparsable(source_data[i].created_at)

\* C3: no filtered row has a null year or a null hour, and a row whose
\* timestamp failed to parse is in no filtered set, whatever is selected.
C3_NoNullYearOrHourInFiltered ==
    Ran("filter") =>
        /\ \A i \in 1..Len(FT) : FT[i].year # NaN /\ FT[i].hour # NaN
        /\ \A i \in 1..Len(g.tweets) :
              g.tweets[i].created_at = NaT => g.tweets[i] \notin Range(FT)

C3_Witness ==
    /\ Ran("filter")
    /\ g.hour_filter = <<0, 23>>
    /\ FT # <<>>
    /\ \E i \in 1..Len(g.tweets) :
          /\ g.tweets[i].created_at = NaT
          /\ g.tweets[i].source = g.source_filter

\* The tokens of a text after a marker, stated by position: every place
\* where the marker stands right before a word character starts a token,
\* the token is the whole run of word characters there, and the tokens are
\* listed by place.
TokenStarts(text, marker) ==
    {i \in 1..Len(text) : /\ text[i] = marker
                          /\ i < Len(text)
                          /\ text[i + 1] \in WordChars}

RunEnd(text, i) ==
    CHOOSE j \in i..Len(text) :
        /\ \A k \in i..j : text[k] \in WordChars
        /\ j = Len(text) \/ text[j + 1] \notin WordChars

NamesAfter(text, marker) ==
    LET at == SortedInts(TokenStarts(text, marker))
    IN  [k \in 1..Len(at) |-> SubSeq(text, at[k] + 1, RunEnd(text, at[k] + 1))]

TokensAt(text, marker) ==
    LET at == SortedInts(TokenStarts(text, marker))
    IN  [k \in 1..Len(at) |-> SubSeq(text, at[k], RunEnd(text, at[k] + 1))]

\* The distinct tokens, markers kept, of the texts of some rows.
DistinctTokens(df, marker) ==
    UNION {{SubSeq(df[i].text, at, RunEnd(df[i].text, at + 1)) :
                at \in TokenStarts(df[i].text, marker)} : i \in 1..Len(df)}

\* The hashtags of the filtered rows, flattened.
FilteredHashtags == Flatten(StrFindallHashtags(FT))

\* C4: the top-hashtag metric never raises; it is the sentinel when the
\* filtered rows hold no hashtag (no row, or no '#'-token in any text) and
\* otherwise a hashtag of largest occurrence count.
C4_TopHashtagSentinelNeverRaises ==
    /\ ~(pc = "metrics" /\ status = "raised")
    /\ Ran("metrics") =>
          IF FilteredHashtags = <<>>
          THEN g.top_hashtag = Sentinel
          ELSE /\ g.top_hashtag \in Range(FilteredHashtags)
               /\ \A t \in Range(FilteredHashtags) :
                     CountOf(FilteredHashtags, t)
                         <= CountOf(FilteredHashtags, g.top_hashtag)

\* C5 as stated: each top-10 artifact has at most 10 items and at most as
\* many items as there are filtered rows.
C5_TopNAtMostRecords ==
    /\ Ran("all_hashtags") =>
          Len(g.all_hashtags_head) <= 10 /\ Len(g.all_hashtags_head) <= Len(FT)
    /\ Ran("top_tweets") =>
          Len(g.top_tweets) <= 10 /\ Len(g.top_tweets) <= Len(FT)
    /\ Ran("mentions") =>
          Len(g.mentions) <= 10 /\ Len(g.mentions) <= Len(FT)
    /\ Ran("top_engaged_tweets") =>
          Len(g.top_engaged_tweets) <= 10 /\ Len(g.top_engaged_tweets) <= Len(FT)

\* C5 amended: each top-10 artifact has at most 10 items; the two tweet
\* rankings have at most as many items as there are filtered rows, the
\* hashtag and mention rankings at most as many as there are distinct
\* hashtags, respectively mentions, in the filtered rows.
C5_TopNAtMostTenAndSupply ==
    /\ Ran("all_hashtags") =>
          /\ Len(g.all_hashtags_head) <= 10
          /\ Len(g.all_hashtags_head) <= Cardinality(DistinctTokens(FT, "#"))
    /\ Ran("top_tweets") =>
          Len(g.top_tweets) <= 10 /\ Len(g.top_tweets) <= Len(FT)
    /\ Ran("mentions") =>
          /\ Len(g.mentions) <= 10
          /\ Len(g.mentions) <= Cardinality(DistinctTokens(FT, "@"))
    /\ Ran("top_engaged_tweets") =>
          Len(g.top_engaged_tweets) <= 10 /\ Len(g.top_engaged_tweets) <= Len(FT)

C5_Witness ==
    /\ pc = "done"
    /\ Len(FT) > 10
    /\ Len(g.top_tweets) = 10
    /\ Len(g.top_engaged_tweets) = 10
    /\ Cardinality(DistinctTokens(FT, "#")) > 10
    /\ Len(g.all_hashtags_head) = 10
    /\ Cardinality(DistinctTokens(FT, "@")) > 10
    /\ Len(g.mentions) = 10

\* The widgets had a year and a source to offer: the pass has a FilterSpec.
HasFilterSpec == g.year_filter # NoneVal /\ g.source_filter # NoSource

\* C6: in a pass with a FilterSpec, the source distribution handed to the
\* pie chart counts the filtered rows only: one entry per source among
\* them, each with the number of filtered rows of that source.
C6_SourceCountsFromFiltered ==
    (Ran("source_counts") /\ HasFilterSpec) =>
        /\ {g.source_counts[k][1] : k \in 1..Len(g.source_counts)}
               = {FT[i].source : i \in 1..Len(FT)}
        /\ \A k \in 1..Len(g.source_counts) :
              g.source_counts[k][2]
                  = Cardinality({i \in 1..Len(FT) : FT[i].source = g.source_counts[k][1]})

C7_TokensInOrder ==
    /\ Ran("preprocess") =>
          \A i \in 1..Len(g.tweets) :
              g.tweets[i].mention = NamesAfter(g.tweets[i].text, "@")
    /\ Ran("all_hashtags") =>
          /\ Len(g.hashtag_findall) = Len(FT)
          /\ \A i \in 1..Len(FT) : g.hashtag_findall[i] = TokensAt(FT[i].text, "#")

\* C7 as stated: tokens by first occurrence with duplicates kept, and for
\* the text "hello #a #b @c" the hashtags a, b and the mention c.
C7_ExtractionExampleBare ==
    /\ C7_TokensInOrder
    /\ Ran("all_hashtags") =>
          \A i \in 1..Len(FT) :
              FT[i].text = Example =>
                  /\ g.hashtag_findall[i] = <<<<"a">>, <<"b">>>>
                  /\ FT[i].mention = <<<<"c">>>>

\* C7 amended: tokens by first occurrence with duplicates kept, a hashtag
\* reported with its '#', a mention without its '@'; for the text
\* "hello #a #b @c" the hashtags are #a, #b and the mention is c.
C7_ExtractionExampleWithMarker ==
    /\ C7_TokensInOrder
    /\ Ran("all_hashtags") =>
          \A i \in 1..Len(FT) :
              FT[i].text = Example =>
                  /\ g.hashtag_findall[i] = <<<<"#", "a">>, <<"#", "b">>>>
                  /\ FT[i].mention = <<<<"c">>>>

C7_Witness ==
    /\ pc = "done"
    /\ Len(FT) = 2
    /\ FT[1].text = Example
    /\ Len(g.hashtag_findall[2]) = 2
    /\ g.hashtag_findall[2][1] = g.hashtag_findall[2][2]

\* C8: the month histogram has twelve entries, January to December in that
\* order, each the number of filtered rows of that month (0 when none), and
\* the twelve counts add up to the number of filtered rows.
C8_MonthHistogramTwelveInCalendarOrder ==
    Ran("month_data") =>
        /\ Len(g.month_data) = 12
        /\ g.month_data[1][1] = "January"
        /\ g.month_data[12][1] = "December"
        /\ \A k \in 1..12 :
              /\ g.month_data[k][1] = MonthNames[k]
              /\ g.month_data[k][2] >= 0
              /\ g.month_data[k][2]
                    = Cardinality({i \in 1..Len(FT) : FT[i].month = MonthNames[k]})
        /\ SumSeq([k \in 1..12 |-> g.month_data[k][2]]) = Len(FT)

C8_Witness ==
    /\ Ran("month_data")
    /\ Len(FT) = 2
    /\ g.month_data[1][2] = 0
    /\ g.month_data[2][2] = 2

\* C9: when the FilterSpec matches no row, the pass raises nowhere, reaches
\* its end, and every artifact it has computed is the zero or empty one.
C9_EmptyFilteredSetRunsToEnd ==
    (Ran("filter") /\ HasFilterSpec /\ FT = <<>>) =>
        /\ status # "raised"
        /\ Ran("metrics") =>
              /\ g.num_tweets = 0
              /\ g.avg_retweets = Zero
              /\ g.avg_likes = Zero
              /\ g.top_hashtag = Sentinel
        /\ Ran("month_data") =>
              /\ Len(g.month_data) = 12
              /\ \A k \in 1..12 : g.month_data[k][2] = 0
        /\ Ran("hourly_data") => g.hourly_data = <<>>
        /\ Ran("all_hashtags") => g.all_hashtags_head = <<>>
        /\ Ran("top_tweets") => g.top_tweets = <<>>
        /\ Ran("sentiment_counts") => g.sentiment_counts = <<>>
        /\ Ran("mentions") => g.mentions = <<>>
        /\ Ran("time_of_day_data") => DOMAIN g.time_of_day_data = {}
        /\ Ran("top_engaged_tweets") => g.top_engaged_tweets = <<>>

\* C10: the export is fetched at most once in a session, every pass works
\* on the cached export, and the filtered rows of a pass are those that
\* match the values the widgets hold in that pass.
C10_FetchedOnceFilteredPerPass ==
    /\ fetches <= 1
    /\ Ran("load_data") => fetches = 1 /\ cache.loaded /\ cache.value = source_data
    /\ Ran("preprocess") => Len(g.tweets) = Len(cache.value)
    /\ Ran("filter") =>
          FT = SelectSeq(g.tweets,
                         LAMBDA r : /\ r.year = widget.year
                                    /\ r.source = widget.source
                                    /\ widget.hour[1] <= r.hour
                                    /\ r.hour <= widget.hour[2])

C10_Witness ==
    /\ pc = "done"
    /\ fetches = 1
    /\ widget.hour # <<0, 23>>
    /\ widget.year # YearOptions(g.tweets)[1]
    /\ widget.source # SourceOptions(g.tweets)[1]
    /\ FT # <<>>

====
